---- MODULE Spec2Model ----
(***************************************************************************)
(* Conversation memory of the Nexus onboarding agent.                      *)
(*                                                                         *)
(*   - ContextManager (storage/context_manager.py): token accounting and   *)
(*     the compression of a message history to a token budget.             *)
(*   - RedisClient / SessionManager (storage/redis_client.py,              *)
(*     storage/session_manager.py): the per-session history list and the   *)
(*     session metadata record.                                            *)
(*   - NexusLangChainAgent.process_message (agent/agent.py): one user      *)
(*     turn: load, compress, invoke the model, append.                     *)
(*                                                                         *)
(* The specifications share the definitions:                               *)
(*   SpecCompress      the ContextManager functions on bounded inputs;     *)
(*   SpecExotic        the same functions on messages with missing fields, *)
(*                     values that are no strings, refused contents;       *)
(*   Spec              the session store and the turns of the agent;       *)
(*   SpecSpecialToken  the turns when a user types a special token;        *)
(*   SpecConcurrent    two turns under way together;                       *)
(*   SpecRace          two SessionManager.add_message calls under way      *)
(*                     together on one session;                            *)
(*   SpecBooking       the meeting room system (data/mock_data.py).        *)
(***************************************************************************)
EXTENDS Integers, Sequences, FiniteSets, TLC

VARIABLES
    \* a call of a ContextManager function
    arg_messages,   \* the argument messages
    arg_max_tokens, \* the argument max_tokens (Optional[int])
    called,         \* the function called, "none" before the call
    returned,       \* what the call returned
    raised,         \* the exception that left the call, None when it returned
    \* the Redis store
    session,        \* key session:<id>: Optional session_data
    history_list,   \* key history:<id>: the list of JSON messages, head first
    \* the process
    known,          \* the session ids generated or supplied so far
    now,            \* the clock datetime.now() reads
    pc,             \* where each process_message call stands
    local,          \* the local variables of each process_message call
    \* the meeting room system
    bookings        \* MockMeetingRoomSystem.bookings

callVars == <<arg_messages, arg_max_tokens, called, returned, raised>>

storeVars == <<session, history_list>>

turnVars == <<known, now, pc, local>>

vars == <<callVars, storeVars, turnVars, bookings>>

(***************************************************************************)
(* Python values.                                                          *)
(*   Optional[x]: <<>> is None, <<v>> is the value v.                      *)
(*   A message is a dict: a record whose fields hold tagged values.        *)
(*     [kind |-> "str", text |-> t]     a str                              *)
(*     [kind |-> "isoformat", at |-> c] the str datetime.isoformat() gives *)
(*                                      for the instant c                  *)
(*     [kind |-> "dict", repr |-> t]    a dict whose str() is the text t   *)
(*     [kind |-> "int", repr |-> t], [kind |-> "list", repr |-> t],        *)
(*     [kind |-> "NoneType", repr |-> t]                                   *)
(*                                      an int, a list, None, each with    *)
(*                                      the text t that str() gives for it *)
(***************************************************************************)
None == <<>>

Some(v) == <<v>>

Str(t) == [kind |-> "str", text |-> t]

IsoFormat(c) == [kind |-> "isoformat", at |-> c]

Dict(t) == [kind |-> "dict", repr |-> t]

IntValue(t) == [kind |-> "int", repr |-> t]

ListValue(t) == [kind |-> "list", repr |-> t]

NoneValue == [kind |-> "NoneType", repr |-> "None"]

(***************************************************************************)
(* Texts.  The tokenizer is tiktoken's cl100k_base (the gpt-4 encoding),    *)
(* an external library: a text is known to the model by its name and by    *)
(* the number of tokens encode() yields for it.  HUGE and LARGE name long  *)
(* contents of 5000 and 1500 tokens; the counts of TIMESTAMP and of        *)
(* ASSISTANT_METADATA are nominal (no property depends on their value).    *)
(***************************************************************************)
HUGE == "<text of 5000 tokens>"

LARGE == "<text of 1500 tokens>"

EMPTY_DICT == "{}"

ASSISTANT_METADATA == "{'tool_calls': [], 'duration': 1.0}"

\* a representative datetime.now().isoformat() string
TIMESTAMP == "2024-01-15T10:30:45.123456"

\* len(encoding.encode(text)) for the texts of the model.
EncodedLength(text) ==
    CASE text = "" -> 0
      [] text \in {"user", "assistant", "system", "hi", EMPTY_DICT,
                   "42", "[]", "None"} -> 1
      [] text = "hello world" -> 2
      [] text = "hello world hello world" -> 4
      [] text = ASSISTANT_METADATA -> 12
      [] text = TIMESTAMP -> 15
      [] text = LARGE -> 1500
      [] text = HUGE -> 5000

\* a text that holds a special token of the encoding: encode() refuses it
\* (ValueError, disallowed_special="all" being the default of encode)
POISON == "<|endoftext|>"

\* self.encoding.encode(text) raises
encode_raises(text) == text = POISON

\* the exception of encode
ValueError == "ValueError"

\* ContextManager.count_tokens: the value it returns, and whether it raises
\* instead (nothing catches the tokenizer's exception)
count_tokens(text) == EncodedLength(text)

count_tokens_raises(text) == encode_raises(text)

\* config.max_context_tokens, the process-wide default budget
max_context_tokens == 4000

\* config.max_history_length, the cap of a stored history
max_history_length == 100

(***************************************************************************)
(* ContextManager.count_messages_tokens                                    *)
(***************************************************************************)
\* the body of the loop over message.items(): a str is counted, a dict is
\* counted through str(value), any other value is skipped
\* (faulty variant: only the str values are counted, a dict is skipped)
ValueTokens_strings_only(value) ==
    IF value.kind = "str" THEN count_tokens(value.text)
    ELSE IF value.kind = "isoformat" THEN count_tokens(TIMESTAMP)
    ELSE 0

ValueTokens(value) ==
    IF value.kind = "str" THEN count_tokens(value.text)
    ELSE IF value.kind = "isoformat" THEN count_tokens(TIMESTAMP)
    ELSE IF value.kind = "dict" THEN count_tokens(value.repr)
    ELSE 0

RECURSIVE ItemsTokens(_, _)
ItemsTokens(message, keys) ==
    IF keys = {} THEN 0
    ELSE LET key == CHOOSE k \in keys : TRUE
         IN  ValueTokens(message[key]) + ItemsTokens(message, keys \ {key})

\* one iteration of the loop over messages: 4 of overhead plus the fields
MessageTokens(message) == 4 + ItemsTokens(message, DOMAIN message)

\* the loop over messages, the additions grouped by halves of the list
RECURSIVE SumTokens(_, _, _)
SumTokens(messages, first, last) ==
    IF first > last THEN 0
    ELSE IF first = last THEN MessageTokens(messages[first])
    ELSE LET mid == (first + last) \div 2
         IN  SumTokens(messages, first, mid) + SumTokens(messages, mid + 1, last)

SumMessageTokens(messages) == SumTokens(messages, 1, Len(messages))

\* (faulty variant: the 3 tokens of the reply prefix are left out)
count_messages_tokens_without_reply_prefix(messages) == SumMessageTokens(messages)

count_messages_tokens(messages) == SumMessageTokens(messages) + 3

\* count_tokens raises on a value the loop over message.items() counts
ValueRaises(value) ==
    \/ value.kind = "str" /\ count_tokens_raises(value.text)
    \/ value.kind = "dict" /\ count_tokens_raises(value.repr)

\* count_messages_tokens raises: no handler between it and count_tokens
count_messages_tokens_raises(messages) ==
    \E i \in 1..Len(messages) :
        \E key \in DOMAIN messages[i] : ValueRaises(messages[i][key])

(***************************************************************************)
(* ContextManager.check_token_budget: <<is_over_budget, current_tokens>>   *)
(***************************************************************************)
\* (faulty variant: a history exactly at the budget counts as over it)
check_token_budget_at_budget_is_over(messages, max_tokens) ==
    LET budget == IF max_tokens = None THEN max_context_tokens ELSE max_tokens[1]
        current_tokens == count_messages_tokens(messages)
    IN  <<current_tokens >= budget, current_tokens>>

\* (faulty variant: the budget is the configured default whatever was supplied)
check_token_budget_default_only(messages, max_tokens) ==
    LET budget == max_context_tokens
        current_tokens == count_messages_tokens(messages)
    IN  <<current_tokens > budget, current_tokens>>

check_token_budget(messages, max_tokens) ==
    LET budget == IF max_tokens = None THEN max_context_tokens ELSE max_tokens[1]
        current_tokens == count_messages_tokens(messages)
    IN  <<current_tokens > budget, current_tokens>>

check_token_budget_raises(messages) == count_messages_tokens_raises(messages)

(***************************************************************************)
(* ContextManager._keep_recent_messages: the loop over reversed(messages); *)
(* i is the index of the message the iteration looks at, result the list   *)
(* built so far.                                                           *)
(***************************************************************************)
\* (faulty variant: the candidate is measured without the 3 tokens of the reply
\* prefix)
RECURSIVE KeepRecentLoop_without_reply_overhead(_, _, _, _)
KeepRecentLoop_without_reply_overhead(messages, i, result, max_tokens) ==
    IF i = 0 THEN result
    ELSE LET temp == <<messages[i]>> \o result
             tokens == SumMessageTokens(temp)
         IN  IF tokens <= max_tokens
             THEN KeepRecentLoop_without_reply_overhead(
                      messages, i - 1, temp, max_tokens)
             ELSE result

\* (faulty variant: a message that does not fit is skipped and the walk goes on to
\* the older ones, instead of stopping)
RECURSIVE KeepRecentLoop_continue(_, _, _, _)
KeepRecentLoop_continue(messages, i, result, max_tokens) ==
    IF i = 0 THEN result
    ELSE LET temp == <<messages[i]>> \o result
             tokens == count_messages_tokens(temp)
         IN  IF tokens <= max_tokens
             THEN KeepRecentLoop_continue(messages, i - 1, temp, max_tokens)
             ELSE KeepRecentLoop_continue(messages, i - 1, result, max_tokens)

\* (faulty variant: the message looked at is put after the ones kept so far, so
\* the result comes out newest first)
RECURSIVE KeepRecentLoop_reversed_result(_, _, _, _)
KeepRecentLoop_reversed_result(messages, i, result, max_tokens) ==
    IF i = 0 THEN result
    ELSE LET temp == Append(result, messages[i])
             tokens == count_messages_tokens(temp)
         IN  IF tokens <= max_tokens
             THEN KeepRecentLoop_reversed_result(messages, i - 1, temp, max_tokens)
             ELSE result

\* (faulty variant: the walk starts at the oldest message and keeps a prefix)
RECURSIVE KeepRecentLoop_from_oldest(_, _, _, _)
KeepRecentLoop_from_oldest(messages, i, result, max_tokens) ==
    IF i = 0 THEN result
    ELSE LET temp == Append(result, messages[Len(messages) + 1 - i])
             tokens == count_messages_tokens(temp)
         IN  IF tokens <= max_tokens
             THEN KeepRecentLoop_from_oldest(messages, i - 1, temp, max_tokens)
             ELSE result

RECURSIVE KeepRecentLoop(_, _, _, _)
KeepRecentLoop(messages, i, result, max_tokens) ==
    IF i = 0 THEN result
    ELSE LET temp == <<messages[i]>> \o result
             tokens == count_messages_tokens(temp)
         IN  IF tokens <= max_tokens
             THEN KeepRecentLoop(messages, i - 1, temp, max_tokens)
             ELSE result

_keep_recent_messages(messages, max_tokens) ==
    KeepRecentLoop(messages, Len(messages), <<>>, max_tokens)

\* _keep_recent_messages raises: the walk from the newest message reaches a
\* message count_tokens raises on (it has not stopped at a newer message)
_keep_recent_messages_raises(messages, max_tokens) ==
    LET refused == {i \in 1..Len(messages) :
                       count_messages_tokens_raises(<<messages[i]>>)}
    IN  /\ refused # {}
        /\ LET p == CHOOSE i \in refused : \A j \in refused : j <= i
               newer == SubSeq(messages, p + 1, Len(messages))
           IN  _keep_recent_messages(newer, max_tokens) = newer

(***************************************************************************)
(* ContextManager._generate_summary                                        *)
(***************************************************************************)
\* m.get("role") == "system"
IsSystem(m) == "role" \in DOMAIN m /\ m["role"] = Str("system")

\* the Python slice seq[-n:]
LastN(seq, n) ==
    IF Len(seq) <= n THEN seq ELSE SubSeq(seq, Len(seq) - n + 1, Len(seq))

\* result = system_messages + recent_messages, before the budget check
SummaryCombined(messages) ==
    LET system_messages == SelectSeq(messages, IsSystem)
        recent_messages == IF Len(messages) > 10 THEN LastN(messages, 10)
                           ELSE messages
    IN  system_messages \o recent_messages

_generate_summary(messages, max_tokens) ==
    LET result == SummaryCombined(messages)
        is_over_budget == check_token_budget(result, Some(max_tokens))[1]
    IN  IF is_over_budget THEN LastN(result, 5) ELSE result

\* _generate_summary raises: the combined list is counted at line 189
_generate_summary_raises(messages) ==
    check_token_budget_raises(SummaryCombined(messages))

(***************************************************************************)
(* ContextManager.compress_context                                         *)
(***************************************************************************)
\* (faulty variant: the summary stage is given the original messages whenever the
\* recency window dropped something, not only while still over budget)
compress_context_always_summarises(messages, max_tokens) ==
    LET budget == IF max_tokens = None THEN max_context_tokens ELSE max_tokens[1]
        is_over_budget == check_token_budget(messages, Some(budget))[1]
    IN  IF ~is_over_budget THEN messages
        ELSE _generate_summary(messages, budget)

\* (faulty variant: `max_tokens or config.max_context_tokens`, a budget of 0
\* taken for a missing one)
compress_context_falsy_budget(messages, max_tokens) ==
    LET budget == IF max_tokens = None \/ max_tokens[1] = 0
                  THEN max_context_tokens ELSE max_tokens[1]
        is_over_budget == check_token_budget(messages, Some(budget))[1]
        compressed == _keep_recent_messages(messages, budget)
        still_over == check_token_budget(compressed, Some(budget))[1]
    IN  IF ~is_over_budget THEN messages
        ELSE IF still_over THEN _generate_summary(compressed, budget)
        ELSE compressed

\* (faulty variant: the summary stage is given the original messages when the
\* recency window is still over budget)
compress_context_summarises_original(messages, max_tokens) ==
    LET budget == IF max_tokens = None THEN max_context_tokens ELSE max_tokens[1]
        is_over_budget == check_token_budget(messages, Some(budget))[1]
        compressed == _keep_recent_messages(messages, budget)
        still_over == check_token_budget(compressed, Some(budget))[1]
    IN  IF ~is_over_budget THEN messages
        ELSE IF still_over THEN _generate_summary(messages, budget)
        ELSE compressed

\* (faulty variant: the system messages of the input are put before the recency
\* window)
compress_context_keeps_system(messages, max_tokens) ==
    LET budget == IF max_tokens = None THEN max_context_tokens ELSE max_tokens[1]
        is_over_budget == check_token_budget(messages, Some(budget))[1]
        compressed == _keep_recent_messages(messages, budget)
    IN  IF ~is_over_budget THEN messages
        ELSE SelectSeq(messages, IsSystem) \o compressed

compress_context(messages, max_tokens) ==
    LET budget == IF max_tokens = None THEN max_context_tokens ELSE max_tokens[1]
        is_over_budget == check_token_budget(messages, Some(budget))[1]
        compressed == _keep_recent_messages(messages, budget)
        still_over == check_token_budget(compressed, Some(budget))[1]
    IN  IF ~is_over_budget THEN messages
        ELSE IF still_over THEN _generate_summary(compressed, budget)
        ELSE compressed

\* compress_context raises: its first statement counts the whole list (line
\* 110), and every later count is of messages of that list
compress_context_raises(messages) == check_token_budget_raises(messages)

(***************************************************************************)
(* SpecCompress: one call of a ContextManager function on a bounded input. *)
(***************************************************************************)
MaxLen == 4

MaxLongLen == 11

MaxBudget == 40

SYS == [role |-> Str("system"), content |-> Str("hi")]

USR == [role |-> Str("user"), content |-> Str("hello world")]

AST == [role |-> Str("assistant"), content |-> Str("hello world hello world")]

BIG == [role |-> Str("user"), content |-> Str(HUGE)]

SeqsOfLen(S, lo, hi) == UNION {[1..n -> S] : n \in lo..hi}

\* every history of up to MaxLen messages, with every budget up to MaxBudget
ShortInputs ==
    SeqsOfLen({SYS, USR, AST, BIG}, 0, MaxLen)
        \X ({None} \cup {Some(b) : b \in -1..MaxBudget})

\* longer histories (past the 10-message window of _generate_summary) of
\* system and user messages, with a minimal, a medium and the default budget
LongInputs ==
    SeqsOfLen({SYS, USR}, MaxLen + 1, MaxLongLen)
        \X {Some(3), Some(MaxBudget), None}

\* a message of the cost of USR
ASK == [role |-> Str("assistant"), content |-> Str("hello world")]

\* histories of messages of one cost, with the budgets from one message up
UniformInputs ==
    SeqsOfLen({USR, ASK}, MaxLen + 1, MaxLen + 3)
        \X {Some(b) : b \in 10..MaxBudget}

\* histories of more than 5 messages with a budget of 0 (a misconfiguration)
ZeroBudgetInputs ==
    SeqsOfLen({SYS, USR}, MaxLen + 1, MaxLen + 3) \X {Some(0)}

NoStore ==
    /\ session = <<>>
    /\ history_list = <<>>
    /\ known = {}
    /\ now = 0
    /\ pc = <<>>
    /\ local = <<>>

InitCompress ==
    /\ \E input \in ShortInputs \cup LongInputs \cup ZeroBudgetInputs
                        \cup UniformInputs :
          /\ arg_messages = input[1]
          /\ arg_max_tokens = input[2]
    /\ called = "none"
    /\ returned = <<>>
    /\ raised = None
    /\ bookings = <<>>
    /\ NoStore

\* count_messages_tokens takes the messages alone
Call_count_messages_tokens ==
    /\ called = "none"
    /\ arg_max_tokens = None
    /\ called' = "count_messages_tokens"
    /\ raised' = IF count_messages_tokens_raises(arg_messages) THEN Some(ValueError) ELSE None
    /\ returned' = IF raised' # None THEN None
                   ELSE count_messages_tokens(arg_messages)
    /\ UNCHANGED <<arg_messages, arg_max_tokens, storeVars, turnVars, bookings>>

Call_check_token_budget ==
    /\ called = "none"
    /\ called' = "check_token_budget"
    /\ raised' = IF check_token_budget_raises(arg_messages) THEN Some(ValueError) ELSE None
    /\ returned' = IF raised' # None THEN None
                   ELSE check_token_budget(arg_messages, arg_max_tokens)
    /\ UNCHANGED <<arg_messages, arg_max_tokens, storeVars, turnVars, bookings>>

Call_compress_context ==
    /\ called = "none"
    /\ called' = "compress_context"
    /\ raised' = IF compress_context_raises(arg_messages) THEN Some(ValueError) ELSE None
    /\ returned' = IF raised' # None THEN None
                   ELSE compress_context(arg_messages, arg_max_tokens)
    /\ UNCHANGED <<arg_messages, arg_max_tokens, storeVars, turnVars, bookings>>

\* the private stages take an int budget
Call_keep_recent_messages ==
    /\ called = "none"
    /\ arg_max_tokens # None
    /\ called' = "_keep_recent_messages"
    /\ raised' =
          IF _keep_recent_messages_raises(arg_messages, arg_max_tokens[1])
          THEN Some(ValueError) ELSE None
    /\ returned' = IF raised' # None THEN None
                   ELSE _keep_recent_messages(arg_messages, arg_max_tokens[1])
    /\ UNCHANGED <<arg_messages, arg_max_tokens, storeVars, turnVars, bookings>>

Call_generate_summary ==
    /\ called = "none"
    /\ arg_max_tokens # None
    /\ called' = "_generate_summary"
    /\ raised' = IF _generate_summary_raises(arg_messages) THEN Some(ValueError) ELSE None
    /\ returned' = IF raised' # None THEN None
                   ELSE _generate_summary(arg_messages, arg_max_tokens[1])
    /\ UNCHANGED <<arg_messages, arg_max_tokens, storeVars, turnVars, bookings>>

NextCompress ==
    \/ Call_count_messages_tokens
    \/ Call_check_token_budget
    \/ Call_compress_context
    \/ Call_keep_recent_messages
    \/ Call_generate_summary

SpecCompress == InitCompress /\ [][NextCompress]_vars

(***************************************************************************)
(* SpecExotic: the same calls on messages as json.loads can give them:     *)
(* fields that are missing, values that are no str, the stored form with   *)
(* timestamp and metadata, a content the tokenizer refuses.                *)
(***************************************************************************)
MaxExoticLen == 3

\* content is an int
NUM == [role |-> Str("user"), content |-> IntValue("42")]

\* content is None (an assistant message that only calls tools)
NUL == [role |-> Str("assistant"), content |-> NoneValue]

\* content is a list
LST == [role |-> Str("user"), content |-> ListValue("[]")]

\* no role
BARE == [content |-> Str("hi")]

\* a message as RedisClient.add_message stores it
STORED == [role |-> Str("assistant"), content |-> Str("hi"),
           timestamp |-> IsoFormat(0), metadata |-> Dict(ASSISTANT_METADATA)]

\* the content holds a special token
PSN == [role |-> Str("user"), content |-> Str(POISON)]

ExoticInputs ==
    SeqsOfLen({USR, NUM, NUL, LST, BARE, STORED, PSN}, 0, MaxExoticLen)
        \X {None, Some(3), Some(MaxBudget)}

InitExotic ==
    /\ \E input \in ExoticInputs :
          /\ arg_messages = input[1]
          /\ arg_max_tokens = input[2]
    /\ called = "none"
    /\ returned = <<>>
    /\ raised = None
    /\ bookings = <<>>
    /\ NoStore

SpecExotic == InitExotic /\ [][NextCompress]_vars

(***************************************************************************)
(* Properties of the ContextManager functions (under SpecCompress).        *)
(***************************************************************************)
\* the int budget a call works with: the argument, or the configured default
Budget == IF arg_max_tokens = None THEN max_context_tokens ELSE arg_max_tokens[1]

\* sub is a subsequence of seq: sub's messages occur in seq, in sub's order,
\* each occurrence of seq used at most once
RECURSIVE IsSubsequence(_, _)
IsSubsequence(sub, seq) ==
    IF sub = <<>> THEN TRUE
    ELSE IF seq = <<>> THEN FALSE
    ELSE IF Head(sub) = Head(seq) THEN IsSubsequence(Tail(sub), Tail(seq))
    ELSE IsSubsequence(sub, Tail(seq))

\* the subsequence of seq at the indices of I
Pick(seq, I) ==
    LET F[i \in 0..Len(seq)] ==
            IF i = 0 THEN <<>>
            ELSE IF i \in I THEN Append(F[i - 1], seq[i]) ELSE F[i - 1]
    IN  F[Len(seq)]

\* the lengths of the non-empty suffixes of seq that fit the budget b
FittingSuffixes(seq, b) ==
    {k \in 1..Len(seq) : count_messages_tokens(LastN(seq, k)) <= b}

Max(S) == CHOOSE x \in S : \A y \in S : y <= x

Min2(a, b) == IF a <= b THEN a ELSE b

NonSystem(m) == ~IsSystem(m)

\* C1: a history within the budget is returned by compress_context as it is:
\* the same messages in the same order.
C1_IdentityWithinBudget ==
    (called = "compress_context"
        /\ count_messages_tokens(arg_messages) <= Budget)
    => returned = arg_messages

C1_Witness ==
    /\ called = "compress_context"
    /\ Len(arg_messages) >= 2
    /\ \E i \in 1..Len(arg_messages) : IsSystem(arg_messages[i])
    /\ count_messages_tokens(arg_messages) = Budget
    /\ returned = arg_messages

\* C2: whenever some subsequence of the history (the empty one included)
\* fits the budget, the result of compress_context fits the budget.
C2_ResultWithinBudget ==
    (called = "compress_context"
        /\ \E I \in SUBSET (1..Len(arg_messages)) :
              count_messages_tokens(Pick(arg_messages, I)) <= Budget)
    => count_messages_tokens(returned) <= Budget

C2_Witness ==
    /\ called = "compress_context"
    /\ count_messages_tokens(arg_messages) > Budget
    /\ returned # <<>>
    /\ Len(returned) < Len(arg_messages)
    /\ count_messages_tokens(returned) <= Budget

\* C3: the result of compress_context is a subsequence of its input: only
\* input messages, none more often than in the input, in the input's order.
C3_ResultIsSubsequence ==
    called = "compress_context" => IsSubsequence(returned, arg_messages)

C3_Witness ==
    /\ called = "compress_context"
    /\ \E i \in 1..Len(arg_messages) : IsSystem(arg_messages[i])
    /\ returned # arg_messages
    /\ returned # <<>>
    /\ IsSubsequence(returned, arg_messages)

\* C4: when some non-empty suffix of the input fits the budget,
\* _keep_recent_messages returns exactly the longest such suffix.
C4_LongestFittingSuffix ==
    (called = "_keep_recent_messages"
        /\ FittingSuffixes(arg_messages, Budget) # {})
    => returned = LastN(arg_messages, Max(FittingSuffixes(arg_messages, Budget)))

C4_Witness ==
    /\ called = "_keep_recent_messages"
    /\ FittingSuffixes(arg_messages, Budget) # {}
    /\ Len(returned) >= 2
    /\ Len(returned) < Len(arg_messages)
    /\ returned = LastN(arg_messages, Len(returned))

\* C5 (as claimed): for a non-empty history whose newest message alone
\* exceeds the budget, compress_context returns a non-empty result, and for a
\* history of one oversized message it returns that message.
C5_OversizedNewestKept ==
    (called = "compress_context"
        /\ arg_messages # <<>>
        /\ count_messages_tokens(LastN(arg_messages, 1)) > Budget)
    => /\ _keep_recent_messages(arg_messages, Budget) = <<>>
       /\ returned # <<>>
       /\ (Len(arg_messages) = 1 => returned = arg_messages)

\* C6 (as claimed): the combined set of _generate_summary is the system
\* messages of the input followed by its 10 most recent non-system messages,
\* each input message at most once.
C6_CombinedSystemThenRecent ==
    called = "_generate_summary"
    => SummaryCombined(arg_messages)
         = SelectSeq(arg_messages, IsSystem)
             \o LastN(SelectSeq(arg_messages, NonSystem), 10)

\* C7 (as claimed): when the combined set is over budget, _generate_summary
\* returns the most recent min(5, n) messages of its n-message input.
C7_CollapseToLastFive ==
    (called = "_generate_summary"
        /\ count_messages_tokens(SummaryCombined(arg_messages)) > Budget)
    => /\ Len(returned) <= 5
       /\ returned = LastN(arg_messages, Min2(5, Len(arg_messages)))

\* C13: for a budget <= 0 compress_context does not raise and behaves as
\* with a minimal budget: whatever the history, the answer is that of the
\* summary stage, the same as for a budget of 1, and holds at most 5 messages.
C13_NonPositiveBudgetBounded ==
    (called = "compress_context" /\ Budget <= 0)
    => /\ raised = None
       /\ returned = compress_context(arg_messages, Some(1))
       /\ returned = _generate_summary(
                         _keep_recent_messages(arg_messages, Budget), Budget)
       /\ Len(returned) <= 5

C13_Witness ==
    /\ called = "compress_context"
    /\ Budget <= 0
    /\ Len(arg_messages) > 5
    /\ raised = None
    /\ Len(returned) <= 5

\* C14: check_token_budget(m, B) returns the pair (count > B', count) of the
\* count of count_messages_tokens(m), B' being B when a budget is supplied
\* and max_context_tokens when B is None; a count equal to the budget is not
\* over it.
C14_CheckTokenBudget ==
    (called = "check_token_budget" /\ raised = None)
    => LET count == count_messages_tokens(arg_messages)
           limit == IF arg_max_tokens = None THEN max_context_tokens
                    ELSE arg_max_tokens[1]
       IN  /\ returned[2] = count
           /\ returned[1] <=> count > limit
           /\ count = limit => returned[1] = FALSE

C14_Witness ==
    /\ called = "check_token_budget"
    /\ arg_max_tokens # None
    /\ arg_messages # <<>>
    /\ returned = <<FALSE, arg_max_tokens[1]>>

\* C16: for the empty history count_messages_tokens gives 3,
\* check_token_budget gives (False, 3) for every budget >= 3, and
\* compress_context returns the empty history without raising.
C16_EmptyHistory ==
    arg_messages = <<>>
    => /\ called = "count_messages_tokens" => raised = None /\ returned = 3
       /\ (called = "check_token_budget" /\ Budget >= 3)
            => raised = None /\ returned = <<FALSE, 3>>
       /\ called = "compress_context" => raised = None /\ returned = <<>>

C16_Witness ==
    /\ arg_messages = <<>>
    /\ called = "compress_context"
    /\ Budget < 3
    /\ raised = None
    /\ returned = <<>>

\* C20 (as claimed): whenever check_token_budget reports the history as over
\* budget, compress_context returns strictly fewer messages than it was given.
C20_OverBudgetStrictlyFewer ==
    (called = "compress_context"
        /\ check_token_budget(arg_messages, arg_max_tokens)[1])
    => Len(returned) < Len(arg_messages)

\* C20 (amended): whenever check_token_budget reports a non-empty history as
\* over budget, compress_context returns strictly fewer messages than it was
\* given; the empty history, over every budget below 3, comes back empty.
C20_NonEmptyOverBudgetStrictlyFewer ==
    (called = "compress_context"
        /\ check_token_budget(arg_messages, arg_max_tokens)[1])
    => IF arg_messages = <<>> THEN returned = <<>>
       ELSE Len(returned) < Len(arg_messages)

C20_Witness ==
    /\ called = "compress_context"
    /\ check_token_budget(arg_messages, arg_max_tokens)[1]
    /\ Len(returned) >= 1
    /\ Len(returned) = Len(arg_messages) - 1

IsSuffix(a, b) == Len(a) <= Len(b) /\ a = SubSeq(b, Len(b) - Len(a) + 1, Len(b))

\* C21: for a history of n messages of one cost c and a budget B with
\* 3 + c <= B < 3 + n*c, compress_context returns exactly the newest
\* floor((B - 3) / c) messages in input order, the newest message among them.
C21_UniformCostKeepsNewest ==
    (called = "compress_context" /\ arg_messages # <<>>)
    => LET n == Len(arg_messages)
           c == MessageTokens(arg_messages[1])
           k == (Budget - 3) \div c
       IN  ((\A i \in 1..n : MessageTokens(arg_messages[i]) = c)
               /\ 3 + c <= Budget /\ Budget < 3 + n * c)
           => /\ raised = None
              /\ Len(returned) = k
              /\ \A j \in 1..k : returned[j] = arg_messages[n - k + j]
              /\ returned[k] = arg_messages[n]

C21_Witness ==
    /\ called = "compress_context"
    /\ Len(arg_messages) >= 6
    /\ \A i \in 1..Len(arg_messages) : MessageTokens(arg_messages[i]) = 7
    /\ Len(returned) = 5
    /\ \E i, j \in 1..5 : returned[i] = USR /\ returned[j] = ASK
    /\ \E i \in 1..5 : returned[i] # returned[6 - i]

\* C26: for every input and every budget compress_context returns a
\* contiguous suffix of the input (the empty one and the whole input
\* included), and the summary stage is entered only when the recency window
\* retained nothing.
C26_ResultIsSuffix ==
    called = "compress_context"
    => LET window == _keep_recent_messages(arg_messages, Budget)
       IN  /\ raised = None
           /\ IsSuffix(returned, arg_messages)
           /\ (check_token_budget(arg_messages, Some(Budget))[1]
                  /\ check_token_budget(window, Some(Budget))[1])
                => window = <<>>

C26_Witness ==
    /\ called = "compress_context"
    /\ returned # <<>>
    /\ Len(returned) < Len(arg_messages)
    /\ IsSystem(arg_messages[1])
    /\ \A i \in 1..Len(returned) : ~IsSystem(returned[i])

\* C27: compress_context is monotone in the budget: what it returns for a
\* budget is a suffix of what it returns for any larger budget.
C27_MonotoneInBudget ==
    called = "compress_context"
    => \A larger \in {Budget + 1, MaxBudget + 1, max_context_tokens} :
          larger >= Budget
          => IsSuffix(returned, compress_context(arg_messages, Some(larger)))

C27_Witness ==
    /\ called = "compress_context"
    /\ returned # <<>>
    /\ Len(compress_context(arg_messages, Some(Budget + 1))) = Len(returned) + 1
    /\ Len(returned) + 1 < Len(arg_messages)

(***************************************************************************)
(* Properties of the token count (under SpecExotic).                       *)
(***************************************************************************)
\* the tokens of field k of message m when its value is a string, when it is
\* a mapping, when it is of another type (counted through its string form);
\* 0 when m has no field k or the value is not of that type
StrFieldTokens(m, k) ==
    IF k \notin DOMAIN m THEN 0
    ELSE IF m[k].kind = "str" THEN EncodedLength(m[k].text)
    ELSE IF m[k].kind = "isoformat" THEN EncodedLength(TIMESTAMP)
    ELSE 0

MappingFieldTokens(m, k) ==
    IF k \in DOMAIN m /\ m[k].kind = "dict" THEN EncodedLength(m[k].repr) ELSE 0

OtherFieldTokens(m, k) ==
    IF k \in DOMAIN m /\ m[k].kind \in {"int", "list", "NoneType"}
    THEN EncodedLength(m[k].repr) ELSE 0

\* the sum of T over the fields a message can have
OverFields(m, T(_, _)) ==
    T(m, "role") + T(m, "content") + T(m, "timestamp") + T(m, "metadata")

\* the sum of T over the messages
OverMessages(messages, T(_)) ==
    LET F[i \in 0..Len(messages)] ==
            IF i = 0 THEN 0 ELSE F[i - 1] + T(messages[i])
    IN  F[Len(messages)]

StringsAndMappings(m) ==
    4 + OverFields(m, StrFieldTokens) + OverFields(m, MappingFieldTokens)

EveryFieldStringified(m) == StringsAndMappings(m) + OverFields(m, OtherFieldTokens)

\* C12 (as claimed): on messages with missing fields or values that are no
\* strings (and whose strings the tokenizer accepts) count_messages_tokens
\* and compress_context do not raise, and the count includes the tokens of
\* the string form of every value that is no string.
C12_NonStringFieldsStringified ==
    (called \in {"count_messages_tokens", "compress_context"}
        /\ ~count_messages_tokens_raises(arg_messages))
    => /\ raised = None
       /\ called = "count_messages_tokens"
            => returned = 3 + OverMessages(arg_messages, EveryFieldStringified)

\* C15: count_messages_tokens(m) is 3 plus, for each message, 4 plus the
\* tokens of its string fields and of the string form of its mapping fields;
\* the count is additive over the messages (the counts of the two parts of
\* any split add up to the count of the whole and one more reply prefix),
\* and no contiguous suffix of m counts more than m.
C15_CountIsAdditive ==
    (called = "count_messages_tokens" /\ raised = None)
    => LET n == Len(arg_messages)
       IN  /\ returned = 3 + OverMessages(arg_messages, StringsAndMappings)
           /\ \A k \in 0..n :
                 count_messages_tokens(SubSeq(arg_messages, 1, k))
                   + count_messages_tokens(SubSeq(arg_messages, k + 1, n))
                 = returned + 3
           /\ \A k \in 0..n :
                 count_messages_tokens(SubSeq(arg_messages, k + 1, n)) <= returned

C15_Witness ==
    /\ called = "count_messages_tokens"
    /\ raised = None
    /\ Len(arg_messages) >= 3
    /\ \E i \in 1..Len(arg_messages) : arg_messages[i] = STORED
    /\ \E i \in 1..Len(arg_messages) : arg_messages[i] = NUM
    /\ \E i \in 1..Len(arg_messages) : arg_messages[i] = BARE

(***************************************************************************)
(* RedisClient: the list commands it uses, on the value of one list key.   *)
(***************************************************************************)
\* json.dumps(message) and json.loads(data): the stored form of a message
json_dumps(message) == [json |-> message]

json_loads(data) == data.json

lpush(list, value) == <<value>> \o list

\* LTRIM key start stop, for 0 <= start and 0 <= stop
ltrim(list, start, stop) ==
    SubSeq(list, start + 1, IF stop + 1 <= Len(list) THEN stop + 1 ELSE Len(list))

\* the Python slice seq[::-1]
Reversed(seq) == [i \in 1..Len(seq) |-> seq[Len(seq) + 1 - i]]

\* RedisClient.get_session
get_session(session_id) == session[session_id]

\* (faulty variant: the list is returned as LRANGE gives it, newest first)
get_conversation_history_as_stored(session_id, limit) ==
    LET history == [i \in 1..Len(history_list[session_id]) |->
                        json_loads(history_list[session_id][i])]
    IN  IF limit # None /\ limit[1] # 0 THEN LastN(history, limit[1])
        ELSE history

\* (faulty variant: a limit keeps the first messages, history[:limit])
get_conversation_history_first_messages(session_id, limit) ==
    LET listed == Reversed(history_list[session_id])
        history == [i \in 1..Len(listed) |-> json_loads(listed[i])]
    IN  IF limit # None /\ limit[1] # 0
        THEN SubSeq(history, 1, IF limit[1] <= Len(history) THEN limit[1]
                                ELSE Len(history))
        ELSE history

\* RedisClient.get_conversation_history (SessionManager's delegates to it):
\* LRANGE 0 -1, reversed, parsed, then the last `limit` when a limit is given
get_conversation_history(session_id, limit) ==
    LET listed == Reversed(history_list[session_id])
        history == [i \in 1..Len(listed) |-> json_loads(listed[i])]
    IN  IF limit # None /\ limit[1] # 0 THEN LastN(history, limit[1])
        ELSE history

\* the message RedisClient.add_message builds
NewMessage(role, content, metadata) ==
    [role |-> Str(role), content |-> Str(content),
     timestamp |-> IsoFormat(now), metadata |-> Dict(metadata)]

\* (faulty variant: the list is not trimmed)
RedisAddMessage_without_trim(session_id, role, content, metadata) ==
    history_list' =
        [history_list EXCEPT ![session_id] =
            lpush(@, json_dumps(NewMessage(role, content, metadata)))]

\* (faulty variant: one list key for all the sessions)
RedisAddMessage_shared_key(session_id, role, content, metadata) ==
    history_list' =
        [id \in DOMAIN history_list |->
            ltrim(lpush(history_list[id],
                        json_dumps(NewMessage(role, content, metadata))),
                  0, max_history_length - 1)]

\* RedisClient.add_message: LPUSH, then LTRIM to max_history_length
RedisAddMessage(session_id, role, content, metadata) ==
    history_list' =
        [history_list EXCEPT ![session_id] =
            ltrim(lpush(@, json_dumps(NewMessage(role, content, metadata))),
                  0, max_history_length - 1)]

\* SessionManager.increment_message_count: nothing without a session record
increment_message_count(session_id) ==
    IF get_session(session_id) = None THEN UNCHANGED session
    ELSE session' =
            [session EXCEPT ![session_id] =
                Some([@[1] EXCEPT !.message_count = @ + 1,
                                  !.last_active = now])]

\* SessionManager.add_message: the append, then the count; one reading of
\* the clock per call
SessionAddMessage(session_id, role, content, metadata) ==
    /\ RedisAddMessage(session_id, role, content, metadata)
    /\ increment_message_count(session_id)
    /\ now' = now + 1

\* the session_data SessionManager.create_session saves
NewSession(session_id, user_id) ==
    [session_id |-> session_id, user_id |-> user_id, created_at |-> now,
     last_active |-> now, message_count |-> 0]

(***************************************************************************)
(* Spec: the store, the session operations and the turns of the agent.     *)
(* The caller serialises the operations on one session (one turn in flight *)
(* per session); turns on different sessions interleave.  Redis answers    *)
(* every command and no key expires within a run.                          *)
(***************************************************************************)
SessionIds == {"s1", "s2"}

\* the process_message calls that can be under way together
Handlers == {"t1"}

Turns == DOMAIN pc

\* the clock readings a run may take
MaxTicks == 4

\* how far below max_history_length the long initial history stands
CapGap == 1

UserInputs == {"hi", HUGE}

Replies == {"hello world"}

NoLocals ==
    [session_id |-> None, user_input |-> "", history |-> <<>>,
     start_time |-> 0, response |-> None]

\* a process_message call is under way on the session
Busy(session_id) ==
    \E t \in Turns : pc[t] # "idle" /\ local[t].session_id = Some(session_id)

\* the history list (newest first) after n alternating user and assistant
\* messages "hi", appended at the instants -n .. -1
Appended(n) ==
    [i \in 1..n |->
        json_dumps([role |-> Str(IF (n + 1 - i) % 2 = 1 THEN "user" ELSE "assistant"),
                    content |-> Str("hi"),
                    timestamp |-> IsoFormat(0 - i),
                    metadata |-> Dict(EMPTY_DICT)])]

\* no session yet, or session s1 created earlier and n messages appended to
\* it through SessionManager.add_message
InitStore ==
    \E n \in {0, max_history_length - CapGap} :
        /\ history_list = [id \in SessionIds |->
                               IF id = "s1" THEN Appended(n)
                               ELSE <<>>]
        /\ session = [id \in SessionIds |->
                          IF id = "s1" /\ n > 0
                          THEN Some([session_id |-> id, user_id |-> None,
                                     created_at |-> 0 - n - 1,
                                     last_active |-> 0 - 1,
                                     message_count |-> n])
                          ELSE None]
        /\ known = IF n > 0 THEN {"s1"} ELSE {}

Init ==
    /\ InitStore
    /\ now = 0
    /\ pc = [t \in Handlers |-> "idle"]
    /\ local = [t \in Handlers |-> NoLocals]
    /\ arg_messages = <<>>
    /\ arg_max_tokens = None
    /\ called = "none"
    /\ returned = <<>>
    /\ raised = None
    /\ bookings = <<>>

\* the appends the turns under way have still to make
RECURSIVE AppendsOwed(_)
AppendsOwed(ts) ==
    IF ts = {} THEN 0
    ELSE LET t == CHOOSE x \in ts : TRUE
         IN  (CASE pc[t] \in {"invoke", "save_user"} -> 2
                [] pc[t] = "save_assistant" -> 1
                [] OTHER -> 0) + AppendsOwed(ts \ {t})

\* the clock has n readings left besides those of the turns under way
TicksLeft(n) == now + AppendsOwed(Turns) + n <= MaxTicks

\* SessionManager.create_session; uuid4 gives an id not seen before
CreateSession ==
    \E id \in SessionIds \ known :
        /\ session' = [session EXCEPT ![id] = Some(NewSession(id, None))]
        /\ known' = known \cup {id}
        /\ UNCHANGED <<history_list, now, pc, local, callVars, bookings>>

\* lines 185-189: the history of the session, compressed to the default
\* budget when there is any
LoadedHistory(id) ==
    LET history == get_conversation_history(id, None)
    IN  IF history # <<>> THEN compress_context(history, None) ELSE history

\* line 189 raises: it stands before the try of line 211, so the exception
\* of compress_context leaves process_message
LoadRaises(id) ==
    LET history == get_conversation_history(id, None)
    IN  history # <<>> /\ compress_context_raises(history)

\* (faulty variant: the compressed history is written back as the stored history)
BeginStore_persists_compressed(id, session_id, user_input) ==
    /\ session' = IF session_id = None
                  THEN [session EXCEPT ![id] = Some(NewSession(id, None))]
                  ELSE session
    /\ history_list' =
          [history_list EXCEPT ![id] =
              Reversed([i \in 1..Len(LoadedHistory(id)) |->
                           json_dumps(LoadedHistory(id)[i])])]
    /\ UNCHANGED now

\* (faulty variant: the user message is appended before the model is invoked)
BeginStore_saves_user_first(id, session_id, user_input) ==
    /\ session' = IF session_id = None
                  THEN [session EXCEPT ![id] = Some(NewSession(id, None))]
                  ELSE session
    /\ RedisAddMessage(id, "user", user_input, EMPTY_DICT)
    /\ now' = now + 1

\* what lines 179-189 do to the store: a session record when no session_id
\* was given, and nothing else, whatever the user's input
BeginStore(id, session_id, user_input) ==
    /\ session' = IF session_id = None
                  THEN [session EXCEPT ![id] = Some(NewSession(id, None))]
                  ELSE session
    /\ UNCHANGED <<history_list, now>>

\* process_message up to the model invocation (agent.py lines 173-209): the
\* session is created when no session_id is given, the history is loaded and
\* compressed, the response object is made; when the compression raises the
\* call ends there, with the exception
process_message(t, session_id, user_input) ==
    /\ pc[t] = "idle"
    /\ TicksLeft(2)
    /\ \E id \in SessionIds :
        /\ IF session_id = None THEN id \notin known ELSE id = session_id[1]
        /\ BeginStore(id, session_id, user_input)
        /\ known' = known \cup {id}
        /\ IF LoadRaises(id)
           THEN /\ local' = [local EXCEPT ![t] =
                       [session_id |-> Some(id), user_input |-> user_input,
                        history |-> <<>>, start_time |-> now,
                        response |-> None]]
                /\ pc' = [pc EXCEPT ![t] = "raised"]
           ELSE /\ local' = [local EXCEPT ![t] =
                       [session_id |-> Some(id), user_input |-> user_input,
                        history |-> LoadedHistory(id), start_time |-> now,
                        response |-> Some([content |-> "", success |-> FALSE,
                                           error |-> None, duration |-> None,
                                           session_id |-> Some(id)])]]
                /\ pc' = [pc EXCEPT ![t] = "invoke"]
    /\ UNCHANGED <<callVars, bookings>>

\* a process_message call of a caller that keeps to one call at a time per
\* session (a session made by the call itself is new to every caller)
Begin(t, session_id, user_input) ==
    /\ session_id # None => ~Busy(session_id[1])
    /\ process_message(t, session_id, user_input)

\* agent.invoke returns (lines 213-235)
ModelReturns(t, reply) ==
    /\ pc[t] = "invoke"
    /\ local' = [local EXCEPT ![t].response =
                    Some([@[1] EXCEPT !.content = reply, !.success = TRUE,
                                      !.duration = Some(now - local[t].start_time)])]
    /\ pc' = [pc EXCEPT ![t] = "save_user"]
    /\ UNCHANGED <<storeVars, known, now, callVars, bookings>>

\* (faulty variant: the user message is saved although the invocation raised)
ModelRaises_saves_user(t) ==
    /\ pc[t] = "invoke"
    /\ local' = [local EXCEPT ![t].response =
                    Some([@[1] EXCEPT !.content = "sorry", !.error = Some("error"),
                                      !.duration = Some(now - local[t].start_time)])]
    /\ SessionAddMessage(local[t].session_id[1], "user", local[t].user_input,
                         EMPTY_DICT)
    /\ pc' = [pc EXCEPT ![t] = "returned"]
    /\ UNCHANGED <<known, callVars, bookings>>

\* agent.invoke raises (lines 271-282)
ModelRaises(t) ==
    /\ pc[t] = "invoke"
    /\ local' = [local EXCEPT ![t].response =
                    Some([@[1] EXCEPT !.content = "sorry", !.error = Some("error"),
                                      !.duration = Some(now - local[t].start_time)])]
    /\ pc' = [pc EXCEPT ![t] = "returned"]
    /\ UNCHANGED <<storeVars, known, now, callVars, bookings>>

\* (faulty variant: the save waits while another turn of the session stands
\* between its two appends)
SaveUser_waits_for_pair(t) ==
    /\ pc[t] = "save_user"
    /\ \A u \in DOMAIN pc \ {t} :
          ~(pc[u] = "save_assistant" /\ local[u].session_id = local[t].session_id)
    /\ SessionAddMessage(local[t].session_id[1], "user", local[t].user_input,
                         EMPTY_DICT)
    /\ pc' = [pc EXCEPT ![t] = "save_assistant"]
    /\ UNCHANGED <<known, local, callVars, bookings>>

\* lines 238-244: the user message is saved
SaveUser(t) ==
    /\ pc[t] = "save_user"
    /\ SessionAddMessage(local[t].session_id[1], "user", local[t].user_input,
                         EMPTY_DICT)
    /\ pc' = [pc EXCEPT ![t] = "save_assistant"]
    /\ UNCHANGED <<known, local, callVars, bookings>>

\* lines 246-255 and 269: the assistant message is saved, the response returned
SaveAssistant(t) ==
    /\ pc[t] = "save_assistant"
    /\ SessionAddMessage(local[t].session_id[1], "assistant",
                         local[t].response[1].content, ASSISTANT_METADATA)
    /\ pc' = [pc EXCEPT ![t] = "returned"]
    /\ UNCHANGED <<known, local, callVars, bookings>>

\* the caller has the response, or the exception that left the call; the
\* handler is free for the next request
Return(t) ==
    /\ pc[t] \in {"returned", "raised"}
    /\ pc' = [pc EXCEPT ![t] = "idle"]
    /\ local' = [local EXCEPT ![t] = NoLocals]
    /\ UNCHANGED <<storeVars, known, now, callVars, bookings>>

\* SessionManager.add_message called by a client of the session manager
AddMessage(session_id, role, content) ==
    /\ ~Busy(session_id)
    /\ TicksLeft(1)
    /\ SessionAddMessage(session_id, role, content, EMPTY_DICT)
    /\ known' = known \cup {session_id}
    /\ UNCHANGED <<pc, local, callVars, bookings>>

\* (faulty variant: the session record is deleted with the history)
ClearHistory_drops_session(session_id) ==
    /\ ~Busy(session_id)
    /\ history_list' = [history_list EXCEPT ![session_id] = <<>>]
    /\ session' = [session EXCEPT ![session_id] = None]
    /\ known' = known \cup {session_id}
    /\ UNCHANGED <<now, pc, local, callVars, bookings>>

\* SessionManager.clear_history: DEL history:<id>
ClearHistory(session_id) ==
    /\ ~Busy(session_id)
    /\ history_list' = [history_list EXCEPT ![session_id] = <<>>]
    /\ known' = known \cup {session_id}
    /\ UNCHANGED <<session, now, pc, local, callVars, bookings>>

\* SessionManager.delete_session: DEL session:<id>, DEL history:<id>
DeleteSession(session_id) ==
    /\ ~Busy(session_id)
    /\ session' = [session EXCEPT ![session_id] = None]
    /\ history_list' = [history_list EXCEPT ![session_id] = <<>>]
    /\ known' = known \cup {session_id}
    /\ UNCHANGED <<now, pc, local, callVars, bookings>>

Next ==
    \/ CreateSession
    \/ \E t \in Handlers, id \in {None} \cup {Some(i) : i \in SessionIds},
          user_input \in UserInputs : Begin(t, id, user_input)
    \/ \E t \in Handlers, reply \in Replies : ModelReturns(t, reply)
    \/ \E t \in Handlers : ModelRaises(t)
    \/ \E t \in Handlers : SaveUser(t)
    \/ \E t \in Handlers : SaveAssistant(t)
    \/ \E t \in Handlers : Return(t)
    \/ \E id \in SessionIds, role \in {"system", "user"} : AddMessage(id, role, "hi")
    \/ \E id \in SessionIds : ClearHistory(id)
    \/ \E id \in SessionIds : DeleteSession(id)

Spec == Init /\ [][Next]_vars

(***************************************************************************)
(* SpecConcurrent: two process_message calls under way together, on one    *)
(* session or on two (several workers on one Redis, or threads on the one  *)
(* agent of get_nexus_agent); no caller holds a call back.  Each           *)
(* add_message of a turn is taken as one step: the order of the stored     *)
(* messages is the order of the LPUSH commands.                            *)
(***************************************************************************)
ConcurrentHandlers == {"t1", "t2"}

InitConcurrent ==
    /\ InitStore
    /\ now = 0
    /\ pc = [t \in ConcurrentHandlers |-> "idle"]
    /\ local = [t \in ConcurrentHandlers |-> NoLocals]
    /\ arg_messages = <<>>
    /\ arg_max_tokens = None
    /\ called = "none"
    /\ returned = <<>>
    /\ raised = None
    /\ bookings = <<>>

NextConcurrent ==
    \/ \E t \in ConcurrentHandlers, id \in {None} \cup {Some(i) : i \in SessionIds} :
          process_message(t, id, "hi")
    \/ \E t \in ConcurrentHandlers, reply \in Replies : ModelReturns(t, reply)
    \/ \E t \in ConcurrentHandlers : ModelRaises(t)
    \/ \E t \in ConcurrentHandlers : SaveUser(t)
    \/ \E t \in ConcurrentHandlers : SaveAssistant(t)
    \/ \E t \in ConcurrentHandlers : Return(t)

SpecConcurrent == InitConcurrent /\ [][NextConcurrent]_vars

(***************************************************************************)
(* SpecRace: two SessionManager.add_message calls under way together on    *)
(* the session s1, which exists.  The steps of a call are its Redis        *)
(* commands: the LPUSH and LTRIM of RedisClient.add_message (one step: the *)
(* count does not depend on how they interleave), the GET of get_session   *)
(* and the SETEX of save_session in increment_message_count.               *)
(***************************************************************************)
Callers == {"a1", "a2"}

\* the messages appended to s1 before the two calls
MaxBefore == 2

Roles == {"user", "assistant"}

InitRace ==
    /\ \E n \in 0..MaxBefore :
        /\ history_list = [id \in SessionIds |->
                               IF id = "s1" THEN Appended(n) ELSE <<>>]
        /\ session = [id \in SessionIds |->
                          IF id = "s1"
                          THEN Some([session_id |-> id, user_id |-> None,
                                     created_at |-> 0 - n - 1,
                                     last_active |-> 0 - 1,
                                     message_count |-> n])
                          ELSE None]
    /\ known = {"s1"}
    /\ now = 0
    /\ pc = [c \in Callers |-> "add_message"]
    /\ local = [c \in Callers |-> [session_data |-> None]]
    /\ arg_messages = <<>>
    /\ arg_max_tokens = None
    /\ called = "none"
    /\ returned = <<>>
    /\ raised = None
    /\ bookings = <<>>

\* session_manager.py line 170: self.redis.add_message, which succeeds
redis_add_message(c, role) ==
    /\ pc[c] = "add_message"
    /\ RedisAddMessage("s1", role, "hi", EMPTY_DICT)
    /\ now' = now + 1
    /\ pc' = [pc EXCEPT ![c] = "get_session"]
    /\ UNCHANGED <<session, known, local, callVars, bookings>>

\* increment_message_count, lines 96-98: the record is read; without a
\* record the call ends
increment_get_session(c) ==
    /\ pc[c] = "get_session"
    /\ local' = [local EXCEPT ![c].session_data = get_session("s1")]
    /\ pc' = [pc EXCEPT ![c] = IF get_session("s1") = None THEN "done"
                                 ELSE "save_session"]
    /\ UNCHANGED <<storeVars, known, now, callVars, bookings>>

\* increment_message_count, lines 100-103: the record that was read is
\* written back with its count one higher
increment_save_session(c) ==
    /\ pc[c] = "save_session"
    /\ session' =
          [session EXCEPT !["s1"] =
              Some([local[c].session_data[1] EXCEPT !.message_count = @ + 1,
                                                    !.last_active = now])]
    /\ pc' = [pc EXCEPT ![c] = "done"]
    /\ UNCHANGED <<history_list, known, now, local, callVars, bookings>>

NextRace ==
    \/ \E c \in Callers, role \in Roles : redis_add_message(c, role)
    \/ \E c \in Callers : increment_get_session(c)
    \/ \E c \in Callers : increment_save_session(c)

SpecRace == InitRace /\ [][NextRace]_vars

(***************************************************************************)
(* SpecBooking: the meeting room system of data/mock_data.py, the one      *)
(* object meeting_room_system; its book_room calls run one after another.  *)
(***************************************************************************)
\* self.rooms: the keys of the dict
rooms == {"A1", "A2", "B1", "B2", "C1"}

\* the bookings a run may record, resets or not
MaxBookings == 3

\* the arguments of the calls: two rooms and a name that is no room, two
\* dates, two start times, two durations
RoomNames == {"A1", "B2", "Z9"}

Dates == {"2025-01-15", "2025-01-16"}

Times == {"09:00", "10:00"}

Durations == {30, 60}

\* (faulty variant: only the existence of the room is checked)
check_availability_without_bookings(room_name, date, time) ==
    room_name \in rooms

\* MockMeetingRoomSystem.check_availability
check_availability(room_name, date, time) ==
    /\ room_name \in rooms
    /\ ~\E i \in 1..Len(bookings) :
          /\ bookings[i].room_name = room_name
          /\ bookings[i].date = date
          /\ bookings[i].time = time

\* the booking dict of lines 154-163; booking_id is "BK" and the number
\* written with four digits
NewBooking(room_name, date, time, duration, booker, purpose) ==
    [room_name |-> room_name, date |-> date, time |-> time,
     duration |-> duration, booker |-> booker, purpose |-> purpose,
     booking_id |-> [prefix |-> "BK", number |-> Len(bookings) + 1],
     created_at |-> IsoFormat(now)]

\* MockMeetingRoomSystem.book_room; the messages are kept as their parts
book_room(room_name, date, time, duration, booker, purpose) ==
    /\ now < MaxBookings
    /\ called' = "book_room"
    /\ IF ~check_availability(room_name, date, time)
       THEN /\ returned' = [success |-> FALSE,
                            message |-> [room_name |-> room_name, date |-> date,
                                         time |-> time, text |-> "taken"]]
            /\ UNCHANGED <<bookings, now>>
       ELSE LET booking == NewBooking(room_name, date, time, duration,
                                      booker, purpose)
            IN  /\ bookings' = Append(bookings, booking)
                /\ now' = now + 1
                /\ returned' = [success |-> TRUE,
                                message |-> [room_name |-> room_name,
                                             text |-> "booked"],
                                booking |-> booking]
    /\ UNCHANGED <<arg_messages, arg_max_tokens, raised, storeVars, known,
                   pc, local>>

\* MockMeetingRoomSystem.reset
reset ==
    /\ bookings' = <<>>
    /\ called' = "reset"
    /\ returned' = None
    /\ UNCHANGED <<arg_messages, arg_max_tokens, raised, storeVars, turnVars>>

\* MockMeetingRoomSystem.__init__
InitBooking ==
    /\ NoStore
    /\ bookings = <<>>
    /\ arg_messages = <<>>
    /\ arg_max_tokens = None
    /\ called = "none"
    /\ returned = <<>>
    /\ raised = None

NextBooking ==
    \/ \E room_name \in RoomNames, date \in Dates, time \in Times,
          duration \in Durations :
          book_room(room_name, date, time, duration, "emp001", "sync")
    \/ reset

SpecBooking == InitBooking /\ [][NextBooking]_vars

(***************************************************************************)
(* SpecSpecialToken: the turns of the agent when users may type a text     *)
(* that holds a special token of the encoding.                             *)
(***************************************************************************)
SpecialInputs == {"hi", POISON}

NextSpecialToken ==
    \/ \E t \in Handlers, id \in {None} \cup {Some(i) : i \in SessionIds},
          user_input \in SpecialInputs : Begin(t, id, user_input)
    \/ \E t \in Handlers, reply \in Replies : ModelReturns(t, reply)
    \/ \E t \in Handlers : ModelRaises(t)
    \/ \E t \in Handlers : SaveUser(t)
    \/ \E t \in Handlers : SaveAssistant(t)
    \/ \E t \in Handlers : Return(t)

SpecSpecialToken == Init /\ [][NextSpecialToken]_vars

(***************************************************************************)
(* Properties of the store and of the turns (under Spec).                  *)
(***************************************************************************)
\* what get_conversation_history(session_id) reads: the stored history,
\* oldest first
Stored(session_id) == get_conversation_history(session_id, None)

IsPrefix(a, b) == Len(a) <= Len(b) /\ SubSeq(b, 1, Len(a)) = a

\* the instant in a message's timestamp
At(message) == message.timestamp.at

\* every message of a is in b, and those messages are in b in a's order (the
\* stored messages differ in their timestamps)
KeptInOrder(a, b) ==
    \/ IsPrefix(a, b)
    \/ /\ \A i \in 1..Len(a) : \E k \in 1..Len(b) : b[k] = a[i]
       /\ \A i \in 1..(Len(a) - 1) :
             \E k, l \in 1..Len(b) : k < l /\ b[k] = a[i] /\ b[l] = a[i + 1]

\* a step of a process_message call
TurnStep == pc' # pc

\* C8 (as claimed): across the steps of a turn every stored message of every
\* session stays stored, in order.
C8_TurnKeepsEveryStoredMessage ==
    [][TurnStep => \A id \in SessionIds : KeptInOrder(Stored(id), Stored(id)')]_vars

\* C8 (amended): the steps of a turn up to the model's answer, the load and
\* compression among them, leave the stored histories as they are; the
\* appends of the turn keep every stored message, in order, but for the
\* oldest ones that the trim to max_history_length drops from a full list.
C8_TurnDropsOnlyByTheLengthCap ==
    [][TurnStep =>
        \A id \in SessionIds :
            LET old == Stored(id)
                new == Stored(id)'
            IN  /\ (\E t \in DOMAIN pc :
                        pc'[t] # pc[t] /\ pc[t] \in {"idle", "invoke", "returned"})
                      => new = old
                /\ \E k \in 0..Len(old) :
                      /\ IsPrefix(LastN(old, Len(old) - k), new)
                      /\ k > 0 => Len(new) = max_history_length]_vars

\* a turn is over whose context had been cut by compress_context, and the
\* messages cut from the context are still stored
C8_Witness ==
    \E t \in DOMAIN pc :
        /\ pc[t] = "returned"
        /\ local[t].response[1].success
        /\ local[t].history # <<>>
        /\ Len(Stored(local[t].session_id[1])) > Len(local[t].history) + 2
        /\ \E i \in 1..Len(Stored(local[t].session_id[1])) :
              Stored(local[t].session_id[1])[i].content = Str(HUGE)

\* C9: when a turn whose model invocation returned is over, the stored
\* history of its session ends with the turn's user message directly followed
\* by the assistant reply; these two are the only messages appended since the
\* turn began, and both were appended after the model had answered.
C9_TurnAppendsUserThenAssistant ==
    \A t \in DOMAIN pc :
        (pc[t] = "returned" /\ local[t].response[1].success)
        => LET history == Stored(local[t].session_id[1])
               n == Len(history)
               answered == local[t].start_time + local[t].response[1].duration[1]
           IN  /\ n >= 2
               /\ {i \in 1..n : At(history[i]) >= local[t].start_time} = {n - 1, n}
               /\ history[n - 1].role = Str("user")
               /\ history[n - 1].content = Str(local[t].user_input)
               /\ history[n].role = Str("assistant")
               /\ history[n].content = Str(local[t].response[1].content)
               /\ At(history[n - 1]) >= answered
               /\ At(history[n - 1]) < At(history[n])

C9_Witness ==
    \E t \in DOMAIN pc :
        /\ pc[t] = "returned"
        /\ local[t].response[1].success
        /\ Len(Stored(local[t].session_id[1])) >= 4
        /\ now > local[t].start_time + 2

\* C10: get_conversation_history returns the retained messages in the order
\* of their appends, oldest first, newest last.
C10_HistoryOldestFirst ==
    \A id \in SessionIds :
        LET history == Stored(id)
        IN  \A i \in 1..(Len(history) - 1) : At(history[i]) < At(history[i + 1])

C10_Witness ==
    \E id \in SessionIds :
        /\ Len(Stored(id)) = max_history_length
        /\ At(Stored(id)[max_history_length]) >= 1
        /\ At(Stored(id)[1]) < 0

\* the limits asked of get_conversation_history: the history endpoint lets
\* through 1..100 (Query ge=1, le=100)
MaxLimit == 3

Limits == 1..MaxLimit

OperationOn(id) ==
    \/ \E role \in {"system", "user"} : AddMessage(id, role, "hi")
    \/ ClearHistory(id)
    \/ DeleteSession(id)
    \/ \E t \in DOMAIN pc :
          /\ local[t].session_id = Some(id)
          /\ SaveUser(t) \/ SaveAssistant(t)

\* C18: add_message, clear_history and delete_session on one session leave
\* the history and the metadata of every other session as they are, and an
\* add_message puts its message, and nothing else, at the end of the history
\* of its own session.
C18_SessionsIsolated ==
    [][\A id \in SessionIds :
          OperationOn(id)
          => /\ \A other \in SessionIds \ {id} :
                   /\ history_list'[other] = history_list[other]
                   /\ session'[other] = session[other]
             /\ now' # now
                  => LET old == Stored(id)
                         new == Stored(id)'
                     IN  /\ new # <<>>
                         /\ At(new[Len(new)]) = now
                         /\ SubSeq(new, 1, Len(new) - 1)
                              = LastN(old, Len(new) - 1)]_vars

C18_Witness ==
    /\ "s1" \in known
    /\ session["s1"] = None
    /\ history_list["s1"] = <<>>
    /\ session["s2"] # None
    /\ Len(history_list["s2"]) >= 2

\* C19: after clear_history(s) the history of s reads as empty and the
\* metadata record of s is still there; after delete_session(s) the history
\* of s reads as empty and get_session(s) returns None.
C19_ClearAndDelete ==
    [][\A id \in SessionIds :
          /\ ClearHistory(id)
               => /\ Stored(id)' = <<>>
                  /\ get_session(id)' = get_session(id)
          /\ DeleteSession(id)
               => /\ Stored(id)' = <<>>
                  /\ get_session(id)' = None]_vars

C19_Witness ==
    \E id \in SessionIds :
        /\ get_session(id) # None
        /\ get_session(id)[1].message_count >= max_history_length
        /\ Stored(id) = <<>>
        /\ \E other \in SessionIds \ {id} :
              /\ other \in known
              /\ get_session(other) = None
              /\ Stored(other) = <<>>

\* C22: after every completed add_message the stored history of the session
\* holds at most max_history_length messages, and an append past the cap
\* drops the oldest messages: the newest max_history_length stay, in order.
C22_HistoryCappedOldestDropped ==
    [][now' # now
        => \A id \in SessionIds :
              LET old == Stored(id)
                  new == Stored(id)'
              IN  /\ Len(new) <= max_history_length
                  /\ new # old
                       => /\ At(new[Len(new)]) = now
                          /\ new = LastN(Append(old, new[Len(new)]),
                                         max_history_length)]_vars

C22_Witness ==
    \E id \in SessionIds :
        /\ Len(Stored(id)) = max_history_length
        /\ At(Stored(id)[1]) > 0 - (max_history_length - CapGap)
        /\ At(Stored(id)[max_history_length]) >= 0

\* C23 (as claimed): the message_count of a session record equals the
\* number of messages in the stored history of the session.
C23_MessageCountIsHistoryLength ==
    \A id \in SessionIds :
        get_session(id) # None
        => get_session(id)[1].message_count = Len(Stored(id))

\* C28: when the model invocation of a turn raised, process_message returns
\* an unsuccessful response and has appended nothing: the stored history of
\* the session holds no message of the turn, and the message_count of its
\* record has not been written since the turn began (a record the turn
\* itself created counts 0).
C28_FailedTurnAppendsNothing ==
    \A t \in DOMAIN pc :
        (pc[t] = "returned" /\ ~local[t].response[1].success)
        => LET id == local[t].session_id[1]
               history == Stored(id)
               record == get_session(id)
               start_time == local[t].start_time
           IN  /\ local[t].response[1].error # None
               /\ \A i \in 1..Len(history) : At(history[i]) < start_time
               /\ record # None
                    => \/ record[1].last_active < start_time
                       \/ /\ record[1].message_count = 0
                          /\ record[1].created_at = start_time

C28_Witness ==
    \E t \in DOMAIN pc :
        /\ pc[t] = "returned"
        /\ ~local[t].response[1].success
        /\ local[t].start_time >= 2
        /\ Len(Stored(local[t].session_id[1])) = 2
        /\ get_session(local[t].session_id[1]) # None
        /\ get_session(local[t].session_id[1])[1].message_count = 2

\* C29 (as claimed): a session id with a non-empty stored history has a
\* metadata record.
C29_HistoryHasRecord ==
    \A id \in SessionIds : Stored(id) # <<>> => get_session(id) # None

(***************************************************************************)
(* Properties of the turns under SpecSpecialToken.                         *)
(***************************************************************************)
\* C11 (as claimed): a failure of the tokenizer on some text is never
\* propagated: count_tokens does not raise on any stored text,
\* compress_context returns a result for every stored history, and no
\* process_message call ends by raising.
C11_TokenizerFailureNotPropagated ==
    /\ \A id \in SessionIds :
          /\ \A i \in 1..Len(Stored(id)) :
                ~count_tokens_raises(Stored(id)[i].content.text)
          /\ ~compress_context_raises(Stored(id))
    /\ \A t \in DOMAIN pc : pc[t] # "raised"

(***************************************************************************)
(* Properties of concurrent turns (under SpecConcurrent).                  *)
(***************************************************************************)
\* C24: neither the agent nor the store serialises the turns on one session:
\* a call can begin on a session that has a call under way (stated for the
\* sessions whose history has at most MaxTicks messages), and a turn can
\* make each of its appends whatever the other turn of the session has done
\* (whence user, user, assistant, assistant).
C24_TurnsNotSerialised ==
    \A t \in DOMAIN pc :
        /\ (pc[t] = "idle" /\ TicksLeft(2))
             => \A id \in SessionIds :
                    (Busy(id) /\ Len(history_list[id]) <= MaxTicks)
                        => ENABLED process_message(t, Some(id), "hi")
        /\ pc[t] = "save_user" => ENABLED SaveUser(t)
        /\ pc[t] = "save_assistant" => ENABLED SaveAssistant(t)

\* two turns on one session have ended and their appends interleaved
C24_Witness ==
    \E id \in SessionIds :
        LET history == Stored(id)
            n == Len(history)
        IN  /\ n >= 4
            /\ At(history[n - 3]) >= 0
            /\ history[n - 3].role = Str("user")
            /\ history[n - 2].role = Str("user")
            /\ history[n - 1].role = Str("assistant")
            /\ history[n].role = Str("assistant")
            /\ \A t \in DOMAIN pc :
                  pc[t] = "returned" /\ local[t].session_id = Some(id)

(***************************************************************************)
(* Properties of concurrent add_message calls (under SpecRace).            *)
(***************************************************************************)
\* the message_count of s1 before the two calls: the messages appended to
\* it before the instant 0 (the history is not trimmed in these runs)
CountBefore ==
    Cardinality({i \in 1..Len(Stored("s1")) : At(Stored("s1")[i]) < 0})

\* C30 (as claimed): when the two add_message calls on the session have
\* both ended, its message_count is exactly 2 higher than before the calls.
C30_CountUpdatesNotLost ==
    (\A c \in DOMAIN pc : pc[c] = "done")
        => get_session("s1")[1].message_count = CountBefore + 2

(***************************************************************************)
(* Properties of the meeting room system (under SpecBooking).              *)
(***************************************************************************)
\* room, date and start time of a booking
Slot(booking) == <<booking.room_name, booking.date, booking.time>>

NoSharedSlot ==
    \A i, j \in 1..Len(bookings) : i # j => Slot(bookings[i]) # Slot(bookings[j])

EveryRoomExists ==
    \A i \in 1..Len(bookings) : bookings[i].room_name \in rooms

\* a book_room step rejects exactly the unknown rooms and the slots that are
\* taken, and then leaves the list as it was; an accepted booking is added
\* at the end of the list
RejectionKeepsList ==
    called' = "book_room" =>
        IF returned'.success
        THEN /\ bookings' = Append(bookings, returned'.booking)
             /\ returned'.booking.room_name \in rooms
             /\ \A i \in 1..Len(bookings) :
                   Slot(bookings[i]) # Slot(returned'.booking)
        ELSE /\ bookings' = bookings
             /\ \/ returned'.message.room_name \notin rooms
                \/ \E i \in 1..Len(bookings) :
                      Slot(bookings[i]) = Slot(returned'.message)

\* C25: after any sequence of book_room calls since the last reset no two
\* recorded bookings share room, date and start time, every recorded booking
\* names an existing room, and a rejected booking (slot taken, or unknown
\* room) leaves the booking list unchanged.
C25_BookingsConsistent ==
    /\ [](NoSharedSlot /\ EveryRoomExists)
    /\ [][RejectionKeepsList]_vars

\* two bookings are recorded and the last call was rejected
C25_Witness ==
    /\ Len(bookings) >= 2
    /\ called = "book_room"
    /\ ~returned.success

====
